---- MODULE Spec2Model ----
(***************************************************************************)
(* The inline suggestion / ghost-text overlay engine of the Canner content *)
(* script (browser-extension/src/content/content.ts): one                  *)
(* InlineSuggestionManager attached to one editable element of a host page.*)
(*                                                                         *)
(* The editable is modelled by its text (a sequence of one-character       *)
(* strings) and a collapsed caret offset.  The handlers of the manager are *)
(* operators from a handler state (a record of every field a handler can    *)
(* write) to the handler state after the call, composed as the methods     *)
(* call each other; each action of the specification is one event          *)
(* delivered by the browser, running the whole handler.                    *)
(***************************************************************************)
EXTENDS Integers, Sequences, FiniteSets, Bags, TLC

\* ----------------------------------------------------------------- bounds
MaxLen == 3
MaxPending == 2
MaxTimers == 1
MaxNow == 500
MaxDispatched == 2
MaxCache == 3
MaxOps == 3
MaxRescanTimers == 1
MaxInflight == 2
MaxDateNow == 2

\* ------------------------------------------------------- program constants
SuppressMs == 500
MinPrefix == 2
BackspaceDelayMs == 10
PenShowDelayMs == 200
PenHideDelayMs == 1500
TwitterMaxLength == 70
TwitterCssMaxWidth == 300
TwitterWideMaxWidth == 250
TwitterWideSpace == 100
TwitterMinSpace == 50
LinkedInPadding == 10

\* ------------------------------------------------------------ environment
\* The editable's box on the page before any scroll or resize, the scroll
\* offsets and box widths the page may take, the rendered width of one
\* character of overlay text, the right edges of the caret on the page, and
\* the step by which the clock (Date.now) advances.
PageBox == [left |-> 0, width |-> 600]
ScrollOffsets == {0, 20}
BoxWidths == {600, 500}
FontMetrics == [charWidth |-> 10]
CaretRights == {592, 597}
TickSteps == {500}

None == [none |-> TRUE]

\* The characters the user types: a letter, a space and a newline.
Chars == {"a", " ", "\n"}

Kinds == {"contenteditable", "TEXTAREA"}
Hostnames == {"www.linkedin.com", "x.com"}

\* ResponseRecord values of the cache (chrome.storage.local "responses").
R1 == [id |-> "1", title |-> <<"b">>, content |-> <<"A", "a", "b">>]
R2 == [id |-> "2", title |-> <<"x">>, content |-> <<"a", "a">>]
R3 == [id |-> "3", title |-> <<"a", "a", "a">>, content |-> <<>>]
Caches == {<<R1, R2, R3>>}

\* Records with a long content: the typed prefix "aa" followed by 70 and by 71
\* more characters.
Long70 == [id |-> "5", title |-> <<"l">>,
           content |-> <<"a", "a">> \o [i \in 1..70 |-> "x"]]
Long71 == [id |-> "6", title |-> <<"l">>,
           content |-> <<"a", "a">> \o [i \in 1..71 |-> "x"]]
LongCaches == {<<Long70>>, <<Long71>>}

\* The record and the typed text of the "Thank yo" scenario.
ThankYouRecord ==
    [id |-> "4", title |-> <<"T", "h", "a", "n", "k", "s">>,
     content |-> <<"T", "h", "a", "n", "k", " ", "y", "o", "u", " ",
                   "f", "o", "r", " ", "c", "o", "n", "n", "e", "c", "t",
                   "i", "n", "g", "!">>]
ThankYo == <<"T", "h", "a", "n", "k", " ", "y", "o">>

VARIABLES kind, hostname, responses, inDocument, now, scrollLeft, boxWidth,
          value, cursor, currentSuggestion, ghostElement, isComposing,
          suppressedUntil, bodyOverlays, pending, timers, dispatched,
          defaultPrevented, uncaught, staleLookups,
          cache, inflight, dateNow, done,
          dom, injectedElements, suggestionManagers, rescanTimers, scanParity,
          isVisible, showTimeout, hideTimeout, focused, pointer, boxEmpty,
          penAttached, lastTrigger,
          popupResponses, saving, showModal, isEditing, editingId, title,
          notification, pendingSave, deletingIds,
          fmtText, fmtOriginal, fmtApplied

\* The variables of one manager.
managerVars ==
    <<kind, hostname, responses, inDocument, now, scrollLeft, boxWidth,
      value, cursor, currentSuggestion, ghostElement, isComposing,
      suppressedUntil, bodyOverlays, pending, timers, dispatched,
      defaultPrevented, uncaught, staleLookups>>

\* The browser-persisted list of responses (chrome.storage.local, key
\* "responses") and the operations that write it: cache is the stored list,
\* inflight the write operations that have read the list and whose set has not
\* been applied yet, each with the list it is about to store, dateNow the
\* value of Date.now(), and done the history of the operations whose set has
\* been applied.
storageVars == <<cache, inflight, dateNow, done>>

\* The discovery of the editables of the host page: dom gives, for each element
\* the page can hold, whether it is in the document, its id attribute ("" when
\* it has none) and whether it passes the size and visibility filters;
\* injectedElements and suggestionManagers are the two module-level
\* collections of the content script, the second as the set of its entries
\* (key, element the manager was constructed on); rescanTimers counts the
\* pending timeouts of the mutation observer and scanParity the periodic scans
\* run so far, modulo 2.
discoveryVars ==
    <<dom, injectedElements, suggestionManagers, rescanTimers, scanParity>>

\* The elements the host page can hold, in document order.
Elements == <<"e1", "e2">>

\* The pen button of one editable (positionPenButton): isVisible, showTimeout
\* and hideTimeout are the three locals the closures share, a timeout being
\* None or the time left before it fires; focused is
\* inputElement.matches(":focus"), pointer the place of the mouse pointer,
\* boxEmpty whether the editable's bounding box has no width or no height, and
\* penAttached whether the button is in the document.  lastTrigger is a
\* history: the last call of showPenButton or hidePenButton, with the event
\* that made it and the time passed since (counted up to the hide delay).
penVars ==
    <<isVisible, showTimeout, hideTimeout, focused, pointer, boxEmpty,
      penAttached, lastTrigger>>

\* The popup (App): popupResponses is the state `responses`, the list
\* displayed; saving, showModal, isEditing, editingId (None for null), title and
\* notification are the states of these names; pendingSave is the call of
\* handleSave that is waiting for updateResponse or saveResponse, with what it
\* captured, or None; deletingIds holds the ids whose deletion handleDelete
\* has scheduled and which has not completed.
popupVars ==
    <<popupResponses, saving, showModal, isEditing, editingId, title,
      notification, pendingSave, deletingIds>>

\* The text formatter: fmtText is the string the formatting functions have
\* produced so far, a sequence of code points; fmtOriginal is the string they
\* started from and fmtApplied the names of the functions applied, in order.
formatVars == <<fmtText, fmtOriginal, fmtApplied>>

\* The variables of the other parts of the extension, which no handler of the
\* manager reads or writes.
others == <<storageVars, discoveryVars, penVars, popupVars, formatVars>>

vars == <<managerVars, others>>

\* No write operation on the stored list has started.
StorageIdle ==
    /\ cache = <<>>
    /\ inflight = EmptyBag
    /\ dateNow = 1
    /\ done = {}

\* The content script has just been loaded in a page without editables.
DiscoveryIdle ==
    /\ dom = [e \in {Elements[k] : k \in 1..Len(Elements)} |->
                 [present |-> FALSE, id |-> "", passes |-> FALSE]]
    /\ injectedElements = {}
    /\ suggestionManagers = {}
    /\ rescanTimers = 0
    /\ scanParity = 0

\* positionPenButton has just run on an editable that has a box, is not
\* focused and is away from the pointer.
PenIdle ==
    /\ isVisible = FALSE
    /\ showTimeout = None
    /\ hideTimeout = None
    /\ focused = FALSE
    /\ pointer = "away"
    /\ boxEmpty = FALSE
    /\ penAttached = TRUE
    /\ lastTrigger = [kind |-> "none", age |-> 0]

\* The popup has been opened on an empty list.
PopupIdle ==
    /\ popupResponses = <<>>
    /\ saving = FALSE
    /\ showModal = FALSE
    /\ isEditing = FALSE
    /\ editingId = None
    /\ title = ""
    /\ notification = ""
    /\ pendingSave = None
    /\ deletingIds = {}

\* No text has been formatted.
FormatIdle ==
    /\ fmtText = <<>>
    /\ fmtOriginal = <<>>
    /\ fmtApplied = <<>>

OthersIdle ==
    StorageIdle /\ DiscoveryIdle /\ PenIdle /\ PopupIdle /\ FormatIdle

\* this.element.getBoundingClientRect(): the editable's box relative to the
\* viewport.
ContainerRect ==
    [left |-> PageBox.left - scrollLeft,
     right |-> PageBox.left - scrollLeft + boxWidth,
     top |-> 0, width |-> boxWidth]

\* The handler state: every field a handler of the manager can write, and
\* the defaultPrevented flag of the event being delivered, which is false when
\* the event is dispatched (handleKeydown calls stopPropagation wherever it
\* calls preventDefault).  uncaught tells whether an exception has left a
\* listener of the manager.  staleLookups is a history of the events: lookups
\* are in flight, and all of them were started before a Tab, an Escape or a
\* blur that cleared a suggestion, no input event having been received since.
St == [value |-> value, cursor |-> cursor,
       currentSuggestion |-> currentSuggestion, ghostElement |-> ghostElement,
       isComposing |-> isComposing, suppressedUntil |-> suppressedUntil,
       bodyOverlays |-> bodyOverlays, pending |-> pending, timers |-> timers,
       dispatched |-> dispatched, defaultPrevented |-> FALSE,
       uncaught |-> uncaught, staleLookups |-> staleLookups]

\* The variables take the fields of the handler state s.
Becomes(s) ==
    /\ value' = s.value
    /\ cursor' = s.cursor
    /\ currentSuggestion' = s.currentSuggestion
    /\ ghostElement' = s.ghostElement
    /\ isComposing' = s.isComposing
    /\ suppressedUntil' = s.suppressedUntil
    /\ bodyOverlays' = s.bodyOverlays
    /\ pending' = s.pending
    /\ timers' = s.timers
    /\ dispatched' = s.dispatched
    /\ defaultPrevented' = s.defaultPrevented
    /\ uncaught' = s.uncaught
    /\ staleLookups' = s.staleLookups

\* ------------------------------------------------------------ text helpers
\* /\s/ of the regular expressions and of String.prototype.trim.
IsWs(c) == c \in {" ", "\n", "\t"}

\* String.prototype.toLowerCase on one character.
LowerChar(c) ==
    CASE c = "A" -> "a"
      [] c = "B" -> "b"
      [] c = "T" -> "t"
      [] OTHER -> c

ToLowerCase(t) == [i \in 1..Len(t) |-> LowerChar(t[i])]

\* String.prototype.startsWith
StartsWith(t, p) == Len(p) <= Len(t) /\ SubSeq(t, 1, Len(p)) = p

\* String.prototype.substring(a, b) with 0-based offsets a <= b.
Substring(t, a, b) == SubSeq(t, a + 1, b)

RECURSIVE TrimEnd(_)
TrimEnd(t) ==
    IF t = <<>> THEN t
    ELSE IF IsWs(t[Len(t)]) THEN TrimEnd(SubSeq(t, 1, Len(t) - 1)) ELSE t

RECURSIVE TrimStart(_)
TrimStart(t) ==
    IF t = <<>> THEN t
    ELSE IF IsWs(t[1]) THEN TrimStart(Tail(t)) ELSE t

\* String.prototype.trim
Trim(t) == TrimStart(TrimEnd(t))

\* String.prototype.split(/\s+/): the pieces between maximal whitespace runs.
RECURSIVE SplitFrom(_, _, _, _)
SplitFrom(t, i, cur, acc) ==
    IF i > Len(t) THEN Append(acc, cur)
    ELSE IF IsWs(t[i])
         THEN IF i > 1 /\ IsWs(t[i - 1])
              THEN SplitFrom(t, i + 1, cur, acc)
              ELSE SplitFrom(t, i + 1, <<>>, Append(acc, cur))
         ELSE SplitFrom(t, i + 1, Append(cur, t[i]), acc)

SplitWs(t) == SplitFrom(t, 1, <<>>, <<>>)

\* String.prototype.lastIndexOf(' '), 0-based, -1 when there is none.
RECURSIVE LastIndexOfSpace(_)
LastIndexOfSpace(t) ==
    IF t = <<>> THEN -1
    ELSE IF t[Len(t)] = " " THEN Len(t) - 1
    ELSE LastIndexOfSpace(SubSeq(t, 1, Len(t) - 1))

Min(a, b) == IF a < b THEN a ELSE b

\* suggestion.content || suggestion.title || ''
FullTextOf(r) ==
    IF r.content # <<>> THEN r.content
    ELSE IF r.title # <<>> THEN r.title ELSE <<>>

\* ------------------------------------------------ InlineSuggestionManager
\* clearGhostElement: remove the overlay node from the document and drop the
\* reference (Element.remove on a node that is not attached does nothing).
ClearGhostElement(s) ==
    IF s.ghostElement # None
    THEN [s EXCEPT !.bodyOverlays = IF s.ghostElement.attached THEN @ - 1 ELSE @,
                   !.ghostElement = None]
    ELSE s

\* Mutant of clearSuggestion: the overlay is left in the document.
ClearSuggestionKeepsOverlay(s) == [s EXCEPT !.currentSuggestion = None]

\* clearSuggestion (also the blur handler)
ClearSuggestion(s) == ClearGhostElement([s EXCEPT !.currentSuggestion = None])

\* getCurrentText: the last piece of the trimmed text before the caret, split
\* on whitespace runs.  The contenteditable branch reads the text of the range
\* from the start of the element to the caret, the input/textarea branch
\* value.substring(0, selectionStart).
GetCurrentText(s) ==
    IF kind = "contenteditable"
    THEN LET text == Substring(s.value, 0, s.cursor)
             words == SplitWs(Trim(text))
         IN  words[Len(words)]
    ELSE IF kind \in {"TEXTAREA", "INPUT"}
    THEN LET text == Substring(s.value, 0, s.cursor)
             words == SplitWs(Trim(text))
         IN  words[Len(words)]
    ELSE <<>>

\* Mutant of the filter predicate: the prefix may occur anywhere in the text
\* (String.prototype.includes).
MatchesAnywhere(r, prefix) ==
    LET text == ToLowerCase(FullTextOf(r))
        q == ToLowerCase(prefix)
    IN  \E i \in 0..(Len(text) - Len(q)) : Substring(text, i, i + Len(q)) = q

\* The filter predicate of fetchSuggestions and of handleInput.
Matches(r, prefix) == StartsWith(ToLowerCase(FullTextOf(r)), ToLowerCase(prefix))

\* fetchSuggestions: the cached records that start with the prefix, in
\* storage order.
FetchSuggestions(prefix) == SelectSeq(responses, LAMBDA r : Matches(r, prefix))

\* HTMLElement.offsetWidth: 0 for an element that has no layout box, which
\* is the case of a node not attached to the document.
OffsetWidth(overlay) ==
    IF overlay.attached THEN Len(overlay.text) * FontMetrics.charWidth ELSE 0

\* positionTwitterOverlay: the overlay after positioning; attached tells
\* whether it was appended to document.body.  rectRight is the right edge of
\* the caret rectangle.
PositionTwitterOverlay(overlay, rectRight) ==
    LET left == rectRight + 1
        overlayWidth == OffsetWidth(overlay)
        availableWidth == ContainerRect.right - left - 10
    IN  IF left + overlayWidth > ContainerRect.right - 5
        THEN IF availableWidth > TwitterWideSpace
             THEN [overlay EXCEPT !.maxWidth = Min(TwitterWideMaxWidth, availableWidth),
                                  !.left = left, !.attached = TRUE]
             ELSE IF availableWidth > TwitterMinSpace
             THEN [overlay EXCEPT !.maxWidth = availableWidth,
                                  !.left = left, !.attached = TRUE]
             ELSE [overlay EXCEPT !.attached = FALSE]
        ELSE [overlay EXCEPT !.left = left, !.attached = TRUE]

\* positionLinkedInOverlay: the overlay fills the input area, inset by 10px.
PositionLinkedInOverlay(overlay) ==
    [overlay EXCEPT !.left = ContainerRect.left + LinkedInPadding,
                    !.maxWidth = ContainerRect.width - 2 * LinkedInPadding,
                    !.attached = TRUE]

\* Mutant of createGhostElement: the previous overlay is not cleared first.
CreateGhostElementKeepsOld(s, text, fullText, platform, rectRight) ==
    IF kind = "contenteditable"
    THEN LET overlay ==
               IF platform = "linkedin"
               THEN PositionLinkedInOverlay(
                        [text |-> fullText, platform |-> platform,
                         attached |-> FALSE, left |-> 0, maxWidth |-> 0])
               ELSE PositionTwitterOverlay(
                        [text |-> text, platform |-> platform,
                         attached |-> FALSE, left |-> 0,
                         maxWidth |-> TwitterCssMaxWidth], rectRight)
         IN  [s EXCEPT !.ghostElement = overlay,
                       !.bodyOverlays = IF overlay.attached THEN @ + 1 ELSE @]
    ELSE s

\* createGhostElement: the previous overlay is cleared; an overlay is built
\* only for a contenteditable element.
CreateGhostElement(s, text, fullText, platform, rectRight) ==
    LET c == ClearGhostElement(s)
    IN  IF kind = "contenteditable"
        THEN LET overlay ==
                   IF platform = "linkedin"
                   THEN PositionLinkedInOverlay(
                            [text |-> fullText, platform |-> platform,
                             attached |-> FALSE, left |-> 0, maxWidth |-> 0])
                   ELSE PositionTwitterOverlay(
                            [text |-> text, platform |-> platform,
                             attached |-> FALSE, left |-> 0,
                             maxWidth |-> TwitterCssMaxWidth], rectRight)
             IN  [c EXCEPT !.ghostElement = overlay,
                           !.bodyOverlays = IF overlay.attached THEN @ + 1 ELSE @]
        ELSE c

\* host.includes("linkedin") || host.includes("twitter") || host.includes("x.com")
IsLinkedInOrTwitterHost == hostname \in {"www.linkedin.com", "x.com"}

\* window.location.hostname.includes("twitter") || ...includes("x.com")
IsTwitter == hostname \in {"twitter.com", "x.com"}

\* Mutant of showSuggestion: the remainder is not truncated.
ShowSuggestionUntruncated(s, suggestion, currentText, rectRight) ==
    LET a == [s EXCEPT !.currentSuggestion = suggestion]
        fullText == FullTextOf(suggestion)
    IN  IF IsTwitter
        THEN LET remainder ==
                   IF StartsWith(ToLowerCase(fullText), ToLowerCase(currentText))
                   THEN Substring(fullText, Len(currentText), Len(fullText))
                   ELSE fullText
             IN  CreateGhostElement(a, remainder, fullText, "twitter", rectRight)
        ELSE CreateGhostElement(a, fullText, fullText, "linkedin", rectRight)

\* showSuggestion
ShowSuggestion(s, suggestion, currentText, rectRight) ==
    LET a == [s EXCEPT !.currentSuggestion = suggestion]
        fullText == FullTextOf(suggestion)
    IN  IF IsTwitter
        THEN LET remainder ==
                   IF StartsWith(ToLowerCase(fullText), ToLowerCase(currentText))
                   THEN Substring(fullText, Len(currentText), Len(fullText))
                   ELSE fullText
                 displayText ==
                   IF Len(remainder) > TwitterMaxLength
                   THEN Substring(remainder, 0, TwitterMaxLength - 3) \o <<".", ".", ".">>
                   ELSE remainder
             IN  CreateGhostElement(a, displayText, fullText, "twitter", rectRight)
        ELSE CreateGhostElement(a, fullText, fullText, "linkedin", rectRight)

\* handleInput up to its await: the checks, and the cache lookup it starts.
\* The lookup is recorded in pending with the prefix the handler captured.
HandleInput(s) ==
    IF now < s.suppressedUntil THEN ClearSuggestion(s)
    ELSE IF s.isComposing THEN s
    ELSE LET currentText == GetCurrentText(s)
         IN  IF Len(currentText) < MinPrefix THEN ClearSuggestion(s)
             ELSE IF kind = "contenteditable" /\ Len(Trim(s.value)) = 0
             THEN ClearSuggestion(s)
             ELSE [s EXCEPT !.pending = @ (+) SetToBag({currentText})]

\* Mutant of handleInput after its await: the last match is used.
ResumeInputLastMatch(s, currentText, rectRight) ==
    LET suggestions == FetchSuggestions(currentText)
        matches == SelectSeq(suggestions, LAMBDA r : Matches(r, currentText))
    IN  IF Len(suggestions) = 0 THEN ClearSuggestion(s)
        ELSE IF Len(matches) = 0 THEN ClearSuggestion(s)
        ELSE ShowSuggestion(s, matches[Len(matches)], currentText, rectRight)

\* handleInput after its await: the lookup for currentText has resolved.
ResumeInput(s, currentText, rectRight) ==
    LET suggestions == FetchSuggestions(currentText)
        matches == SelectSeq(suggestions, LAMBDA r : Matches(r, currentText))
    IN  IF Len(suggestions) = 0 THEN ClearSuggestion(s)
        ELSE IF Len(matches) = 0 THEN ClearSuggestion(s)
        ELSE ShowSuggestion(s, matches[1], currentText, rectRight)

\* handleInput after its await when a DOM operation of positioning the overlay
\* throws: showSuggestion has set currentSuggestion and createGhostElement has
\* cleared the previous overlay; the catch block of handleInput calls
\* clearSuggestion.
ResumeInputThrows(s, currentText) ==
    LET suggestions == FetchSuggestions(currentText)
        matches == SelectSeq(suggestions, LAMBDA r : Matches(r, currentText))
    IN  IF Len(suggestions) = 0 THEN ClearSuggestion(s)
        ELSE IF Len(matches) = 0 THEN ClearSuggestion(s)
        ELSE ClearSuggestion(
                 ClearGhostElement([s EXCEPT !.currentSuggestion = matches[1]]))

\* dispatchEvent of the synthetic input and change events: listeners run
\* synchronously, and the manager listens to input.
DispatchInputAndChange(s) ==
    LET h == HandleInput(s)
    IN  [h EXCEPT !.dispatched = @ + 2]

\* replaceInInput
ReplaceInInput(s, fullText) ==
    LET cursorPos == s.cursor
        F[i \in -1..Len(s.value)] ==
            IF i >= 0 /\ s.value[i + 1] # " " /\ s.value[i + 1] # "\n"
            THEN F[i - 1] ELSE i
        startPos == F[cursorPos - 1] + 1
        newValue == Substring(s.value, 0, startPos) \o fullText
                      \o Substring(s.value, cursorPos, Len(s.value))
    IN  DispatchInputAndChange(
            [s EXCEPT !.value = newValue, !.cursor = startPos + Len(fullText)])

\* replaceInContentEditable: the text from the position after the last space
\* before the caret up to the caret is deleted and a text node with fullText is
\* inserted there; the selection collapses after it.  An element with no text
\* node is left alone.
ReplaceInContentEditable(s, fullText) ==
    LET currentContent == Substring(s.value, 0, s.cursor)
        lastSpaceIndex == LastIndexOfSpace(currentContent)
        startIndex == IF lastSpaceIndex >= 0 THEN lastSpaceIndex + 1 ELSE 0
        newValue == Substring(s.value, 0, startIndex) \o fullText
                      \o Substring(s.value, s.cursor, Len(s.value))
    IN  IF Len(s.value) = 0 THEN s
        ELSE DispatchInputAndChange(
                 [s EXCEPT !.value = newValue, !.cursor = startIndex + Len(fullText)])

\* Mutant of acceptSuggestion: the suppression deadline is set after the
\* replacement has dispatched its events.
AcceptSuggestionSuppressesLate(s) ==
    IF s.currentSuggestion = None THEN s
    ELSE LET fullText == FullTextOf(s.currentSuggestion)
             b == IF kind = "contenteditable"
                  THEN ReplaceInContentEditable(s, fullText)
                  ELSE IF kind \in {"TEXTAREA", "INPUT"}
                  THEN ReplaceInInput(s, fullText)
                  ELSE s
         IN  ClearSuggestion([b EXCEPT !.suppressedUntil = now + SuppressMs])

\* acceptSuggestion
AcceptSuggestion(s) ==
    IF s.currentSuggestion = None THEN s
    ELSE LET a == [s EXCEPT !.suppressedUntil = now + SuppressMs]
             fullText == FullTextOf(s.currentSuggestion)
             b == IF kind = "contenteditable"
                  THEN ReplaceInContentEditable(a, fullText)
                  ELSE IF kind \in {"TEXTAREA", "INPUT"}
                  THEN ReplaceInInput(a, fullText)
                  ELSE a
         IN  ClearSuggestion(b)

\* acceptSuggestion when a range or selection operation of getCurrentText or
\* of replaceInContentEditable throws: the deadline is set, nothing catches
\* the exception, and the clearSuggestion at the end is not reached.
AcceptSuggestionThrows(s) ==
    IF s.currentSuggestion = None THEN s
    ELSE [s EXCEPT !.suppressedUntil = now + SuppressMs, !.uncaught = TRUE]

\* Mutant of handleKeydown: Escape commits the suggestion as Tab does.
HandleKeydownEscapeCommits(s, key) ==
    IF key \in {"Tab", "Escape"} /\ s.currentSuggestion # None
    THEN AcceptSuggestion([s EXCEPT !.defaultPrevented = TRUE])
    ELSE IF key \in {"Backspace", "Delete"}
    THEN [s EXCEPT !.timers = @ (+) SetToBag({now + BackspaceDelayMs})]
    ELSE s

\* Mutant of handleKeydown: Tab and Escape are intercepted whether or not a
\* suggestion is active.
HandleKeydownAlwaysIntercepts(s, key) ==
    IF key = "Tab"
    THEN AcceptSuggestion([s EXCEPT !.defaultPrevented = TRUE])
    ELSE IF key = "Escape"
    THEN ClearSuggestion([s EXCEPT !.defaultPrevented = TRUE])
    ELSE IF key \in {"Backspace", "Delete"}
    THEN [s EXCEPT !.timers = @ (+) SetToBag({now + BackspaceDelayMs})]
    ELSE s

\* handleKeydown
HandleKeydown(s, key) ==
    IF key = "Tab" /\ s.currentSuggestion # None
    THEN AcceptSuggestion([s EXCEPT !.defaultPrevented = TRUE])
    ELSE IF key = "Escape" /\ s.currentSuggestion # None
    THEN ClearSuggestion([s EXCEPT !.defaultPrevented = TRUE])
    ELSE IF key \in {"Backspace", "Delete"}
    THEN [s EXCEPT !.timers = @ (+) SetToBag({now + BackspaceDelayMs})]
    ELSE s

\* Mutant of the timer callback: it clears whatever the current word is.
BackspaceTimeoutAlwaysClears(s) == ClearSuggestion(s)

\* The callback of the timer armed by Backspace/Delete.
BackspaceTimeout(s) ==
    IF Len(GetCurrentText(s)) < MinPrefix THEN ClearSuggestion(s) ELSE s

\* ------------------------------------------------------------------ events
\* The history after an event that took the handler state from s to h: a Tab,
\* Escape or blur that cleared a suggestion makes the lookups in flight stale.
AfterClearingEvent(s, h) ==
    IF s.currentSuggestion # None /\ h.currentSuggestion = None
    THEN [h EXCEPT !.staleLookups = (h.pending # EmptyBag)]
    ELSE h

\* The history after an input event.
AfterInputEvent(h) == [h EXCEPT !.staleLookups = FALSE]

\* The history after a lookup has completed.
AfterLookup(h) ==
    IF h.pending = EmptyBag THEN [h EXCEPT !.staleLookups = FALSE] ELSE h

\* The host name only decides how the overlay of a contenteditable is built,
\* so a textarea is explored on one host.
InitWith(caches) ==
    /\ kind \in Kinds
    /\ hostname \in Hostnames
    /\ kind = "TEXTAREA" => hostname = "www.linkedin.com"
    /\ responses \in caches
    /\ inDocument = TRUE
    /\ now = 0
    /\ scrollLeft = 0
    /\ boxWidth = PageBox.width
    /\ value = <<>>
    /\ cursor = 0
    /\ currentSuggestion = None
    /\ ghostElement = None
    /\ isComposing = FALSE
    /\ suppressedUntil = 0
    /\ bodyOverlays = 0
    /\ pending = EmptyBag
    /\ timers = EmptyBag
    /\ dispatched = 0
    /\ defaultPrevented = FALSE
    /\ uncaught = FALSE
    /\ staleLookups = FALSE

\* The state after the manager is constructed on an empty editable.
Init == InitWith(Caches) /\ OthersIdle

Env ==
    <<kind, hostname, responses, inDocument, now, scrollLeft, boxWidth, others>>

\* The user types the character c at the caret: keydown, the insertion, then
\* the input event.
TypeAtCaret(c) ==
    /\ inDocument
    /\ LET k == HandleKeydown(St, c)
           t == [k EXCEPT !.value = Substring(value, 0, cursor) \o <<c>>
                                      \o Substring(value, cursor, Len(value)),
                          !.cursor = cursor + 1]
           h == AfterInputEvent(HandleInput(t))
       IN  /\ BagCardinality(h.pending) <= MaxPending
           /\ Becomes(h)
    /\ UNCHANGED Env

\* Typing is explored on texts of fewer than MaxLen characters.
TypeChar(c) ==
    /\ Len(value) < MaxLen
    /\ TypeAtCaret(c)

\* The user presses Tab with an active suggestion and a range or selection
\* operation of the commit throws.
KeyTabRangeFails ==
    /\ inDocument
    /\ kind = "contenteditable"
    /\ currentSuggestion # None
    /\ Becomes(AcceptSuggestionThrows([St EXCEPT !.defaultPrevented = TRUE]))
    /\ UNCHANGED Env

\* A lookup in flight completes with a match and a DOM operation of positioning
\* the overlay throws.
LookupCompleteRangeFails(prefix) ==
    /\ BagIn(prefix, pending)
    /\ kind = "contenteditable"
    /\ FetchSuggestions(prefix) # <<>>
    /\ Becomes(AfterLookup(
                   ResumeInputThrows([St EXCEPT !.pending = @ (-) SetToBag({prefix})],
                                     prefix)))
    /\ UNCHANGED Env

\* The user presses Backspace or Delete: keydown, the deletion (when there is
\* a character to delete), then the input event of the deletion.  Editing is
\* explored on texts of at most MaxLen characters.
DeleteChar(key) ==
    /\ inDocument
    /\ Len(value) <= MaxLen
    /\ LET k == HandleKeydown(St, key)
           from == IF key = "Backspace" THEN cursor - 1 ELSE cursor
           deletes == from >= 0 /\ from < Len(value)
           t == [k EXCEPT !.value = Substring(value, 0, from)
                                      \o Substring(value, from + 1, Len(value)),
                          !.cursor = from]
           h == IF deletes THEN AfterInputEvent(HandleInput(t)) ELSE k
       IN  /\ BagCardinality(h.timers) <= MaxTimers
           /\ BagCardinality(h.pending) <= MaxPending
           /\ Becomes(h)
    /\ UNCHANGED Env

\* The user presses Tab.  Without an active suggestion the key is left to the
\* host page.
KeyTab ==
    /\ inDocument
    /\ LET h == AfterClearingEvent(St, HandleKeydown(St, "Tab"))
       IN  /\ h.dispatched <= MaxDispatched
           /\ Becomes(h)
    /\ UNCHANGED Env

KeyEscape ==
    /\ inDocument
    /\ Becomes(AfterClearingEvent(St, HandleKeydown(St, "Escape")))
    /\ UNCHANGED Env

\* The editable loses focus: the blur handler is clearSuggestion.
Blur ==
    /\ inDocument
    /\ Becomes(AfterClearingEvent(St, ClearSuggestion(St)))
    /\ UNCHANGED Env

CompositionStart ==
    /\ inDocument
    /\ ~isComposing
    /\ Becomes([St EXCEPT !.isComposing = TRUE])
    /\ UNCHANGED Env

CompositionEnd ==
    /\ inDocument
    /\ isComposing
    /\ Becomes([St EXCEPT !.isComposing = FALSE])
    /\ UNCHANGED Env

\* The user moves the caret (arrow keys, a click): no listener of the manager
\* runs.
MoveCaret(pos) ==
    /\ inDocument
    /\ pos # cursor
    /\ Becomes([St EXCEPT !.cursor = pos])
    /\ UNCHANGED Env

\* The callback of chrome.storage.local.get runs for a lookup in flight, and
\* handleInput resumes after its await.  rectRight is the right edge of the
\* caret on the page; the caret rectangle is relative to the viewport.
LookupComplete(prefix, rectRight) ==
    /\ BagIn(prefix, pending)
    /\ Becomes(AfterLookup(
                   ResumeInput([St EXCEPT !.pending = @ (-) SetToBag({prefix})],
                               prefix, rectRight - scrollLeft)))
    /\ UNCHANGED Env

\* A timer armed by Backspace/Delete fires once its delay has passed.
TimerFire(due) ==
    /\ BagIn(due, timers)
    /\ now >= due
    /\ Becomes(BackspaceTimeout([St EXCEPT !.timers = @ (-) SetToBag({due})]))
    /\ UNCHANGED Env

\* Time passes.
Tick(d) ==
    /\ now + d <= MaxNow
    /\ now' = now + d
    /\ UNCHANGED <<kind, hostname, responses, inDocument, scrollLeft, boxWidth,
                   others>>
    /\ Becomes(St)

\* The window scrolls.  The listeners of scroll that the content script
\* installs reposition the toolbar, the pen button and the compose button; none
\* touches the manager or its overlay.
Scroll(offset) ==
    /\ inDocument
    /\ offset # scrollLeft
    /\ scrollLeft' = offset
    /\ UNCHANGED <<kind, hostname, responses, inDocument, now, boxWidth, others>>
    /\ Becomes(St)

\* The window is resized and the editable's box takes another width.  As for
\* scroll, no listener touches the manager or its overlay.
Resize(width) ==
    /\ inDocument
    /\ width # boxWidth
    /\ boxWidth' = width
    /\ UNCHANGED <<kind, hostname, responses, inDocument, now, scrollLeft, others>>
    /\ Becomes(St)

\* The host page removes the editable (or an ancestor of it) from the
\* document.  No callback of the content script touches the manager: the
\* observers of removed nodes remove the pen button, the compose button and the
\* toolbar, observeDOM looks at added nodes only, and nothing calls destroy.
RemoveElement ==
    /\ inDocument
    /\ inDocument' = FALSE
    /\ UNCHANGED <<kind, hostname, responses, now, scrollLeft, boxWidth, others>>
    /\ Becomes(St)

Next ==
    \/ \E c \in Chars : TypeChar(c)
    \/ \E key \in {"Backspace", "Delete"} : DeleteChar(key)
    \/ KeyTab
    \/ KeyEscape
    \/ Blur
    \/ \E prefix \in BagToSet(pending), rectRight \in CaretRights :
           LookupComplete(prefix, rectRight)
    \/ \E due \in BagToSet(timers) : TimerFire(due)
    \/ \E d \in TickSteps : Tick(d)

\* The manager on an editable that stays in the document, the user typing and
\* deleting at the end of the text, without IME input.
Spec == Init /\ [][Next]_vars

\* ... with the user moving the caret.
NextCaret ==
    \/ Next
    \/ \E pos \in 0..Len(value) : MoveCaret(pos)

SpecCaret == Init /\ [][NextCaret]_vars

\* ... with IME composition.
NextIME ==
    \/ Next
    \/ CompositionStart
    \/ CompositionEnd

SpecIME == Init /\ [][NextIME]_vars

\* ... with the host page removing the editable.
NextDetach ==
    \/ Next
    \/ RemoveElement

SpecDetach == Init /\ [][NextDetach]_vars

\* ... with the window scrolling and being resized.
NextScroll ==
    \/ Next
    \/ \E offset \in ScrollOffsets : Scroll(offset)
    \/ \E width \in BoxWidths : Resize(width)

SpecScroll == Init /\ [][NextScroll]_vars

\* ... with DOM operations that throw.
NextThrow ==
    \/ Next
    \/ KeyTabRangeFails
    \/ \E prefix \in BagToSet(pending) : LookupCompleteRangeFails(prefix)

SpecThrow == Init /\ [][NextThrow]_vars

\* Caret moves, composition and removal of the editable together.
NextAll ==
    \/ NextCaret
    \/ CompositionStart
    \/ CompositionEnd
    \/ RemoveElement

SpecAll == Init /\ [][NextAll]_vars

\* The "Thank yo" scenario: the cache holds the one record, and the user types
\* "Thank yo" character by character into the empty editable.
InitThankYo == InitWith({<<ThankYouRecord>>}) /\ OthersIdle

TypeNextOfThankYo ==
    /\ Len(value) < Len(ThankYo)
    /\ value = SubSeq(ThankYo, 1, Len(value))
    /\ cursor = Len(value)
    /\ TypeAtCaret(ThankYo[Len(value) + 1])

NextThankYo ==
    \/ TypeNextOfThankYo
    \/ KeyTab
    \/ KeyEscape
    \/ Blur
    \/ \E prefix \in BagToSet(pending), rectRight \in CaretRights :
           LookupComplete(prefix, rectRight)
    \/ \E d \in TickSteps : Tick(d)

SpecThankYo == InitThankYo /\ [][NextThankYo]_vars

\* The manager with a long record in the cache, the user typing, committing
\* and dismissing.
InitLong == InitWith(LongCaches) /\ OthersIdle

NextLong ==
    \/ \E c \in Chars : TypeChar(c)
    \/ KeyTab
    \/ KeyEscape
    \/ Blur
    \/ \E prefix \in BagToSet(pending), rectRight \in CaretRights :
           LookupComplete(prefix, rectRight)
    \/ \E d \in TickSteps : Tick(d)

SpecLong == InitLong /\ [][NextLong]_vars

\* ------------------------------------------------------------------ claims
\* Definitions the claims share.  The current word and the first match are
\* stated here from the wording of the claims, not through the operators that
\* model the handlers.
PrefixWord == GetCurrentText(St)

SuggestionShown == currentSuggestion # None

OverlayAttached == ghostElement # None /\ ghostElement.attached

\* r's content, or its title when the content is empty, starts with p, the
\* case of the letters aside.
StartsIgnoringCase(r, p) ==
    LET text == IF Len(r.content) > 0 THEN r.content ELSE r.title
    IN  /\ Len(p) <= Len(text)
        /\ \A i \in 1..Len(p) : LowerChar(text[i]) = LowerChar(p[i])

\* The first record in storage order that starts with p, None without one.
FirstInStorageOrder(p) ==
    LET hits == {i \in 1..Len(responses) : StartsIgnoringCase(responses[i], p)}
    IN  IF hits = {} THEN None
        ELSE responses[CHOOSE i \in hits : \A j \in hits : i <= j]

\* C1: whenever the current word at the caret has fewer than 2 characters, no
\* suggestion is active and no ghost overlay is shown.
C1_NoSuggestionBelowTwoChars ==
    Len(PrefixWord) < 2 =>
        /\ currentSuggestion = None
        /\ ghostElement = None
        /\ bodyOverlays = 0

\* A step in which the lookup of p completes: the only steps that take a
\* lookup out of pending.
LookupCompletes(p) ==
    /\ BagIn(p, pending)
    /\ pending' = pending (-) SetToBag({p})

\* The same, the caret rectangle ending at r.
LookupCompletesAt(p, r) ==
    /\ LookupCompletes(p)
    /\ LookupComplete(p, r)

\* A step in which the user types c.
Types(c) ==
    /\ Len(value') = Len(value) + 1
    /\ TypeChar(c)

\* A step in which Backspace or Delete deletes a character.
Deletes(key) ==
    /\ Len(value') = Len(value) - 1
    /\ DeleteChar(key)

\* The current word after the step.
PrefixWordAfter == GetCurrentText([St EXCEPT !.value = value', !.cursor = cursor'])

\* C2: an input event that is handled (not suppressed, not composing) and leaves
\* a current word p of at least 2 characters starts the lookup of p, and when
\* the lookup of p completes the active suggestion is the first record in
\* storage order that starts with p, the case of the letters aside, and none
\* when no record does.
C2_FirstMatchBecomesActive ==
    [][/\ \A c \in Chars :
             (/\ now >= suppressedUntil /\ ~isComposing
              /\ Types(c)
              /\ Len(PrefixWordAfter) >= 2)
             => pending' = pending (+) SetToBag({PrefixWordAfter})
       /\ \A p \in BagToSet(pending) :
             LookupCompletes(p) => currentSuggestion' = FirstInStorageOrder(p)
      ]_vars

\* C2 witness: the first of two matching records is the active suggestion; the
\* second one is shorter.
C2_Witness ==
    /\ PrefixWord = <<"a", "a">>
    /\ currentSuggestion = R1
    /\ StartsIgnoringCase(R2, PrefixWord)
    /\ Len(R2.content) < Len(R1.content)
    /\ \E i, j \in 1..Len(responses) :
          i < j /\ responses[i] = R1 /\ responses[j] = R2

\* The offset at which the current word, as getCurrentText finds it, begins.
WordStart == Len(TrimEnd(Substring(value, 0, cursor))) - Len(PrefixWord)

\* C3: Tab with an active suggestion yields (text before the prefix word) +
\* (full suggestion content) + (text after the caret), the caret right after
\* the inserted text.
C3_TabSplicesSuggestion ==
    [][(SuggestionShown /\ KeyTab) =>
          LET full == IF Len(currentSuggestion.content) > 0
                      THEN currentSuggestion.content ELSE currentSuggestion.title
          IN  /\ value' = Substring(value, 0, WordStart) \o full
                            \o Substring(value, cursor, Len(value))
              /\ cursor' = WordStart + Len(full)
      ]_vars

Thank == SubSeq(ThankYo, 1, 5)

\* C4 as claimed: with "Thank yo" in the editable and the caret at the end, the
\* lookup of the input event makes the record "Thank you for connecting!" the
\* active suggestion, and Tab yields exactly that content, the caret at its end.
C4_ThankYoCompletes ==
    [][(value = ThankYo /\ cursor = Len(ThankYo)) =>
          /\ LookupCompletes(PrefixWord) => currentSuggestion' = ThankYouRecord
          /\ (SuggestionShown /\ KeyTab) =>
                /\ value' = ThankYouRecord.content
                /\ cursor' = Len(ThankYouRecord.content)
      ]_vars

\* C4 as amended: with the single word "Thank" in the editable and the caret at
\* the end, the lookup of the input event makes the record the active
\* suggestion, and Tab yields exactly "Thank you for connecting!", the caret at
\* its end; with "Thank yo" the current word is "yo", which the record does not
\* start with, and the lookup of the input event leaves no suggestion active.
C4_ThankCompletes ==
    [][/\ (value = Thank /\ cursor = Len(Thank)) =>
             /\ LookupCompletes(Thank) => currentSuggestion' = ThankYouRecord
             /\ (SuggestionShown /\ KeyTab) =>
                   /\ value' = ThankYouRecord.content
                   /\ cursor' = Len(ThankYouRecord.content)
                   /\ currentSuggestion' = None
       /\ (value = ThankYo /\ cursor = Len(ThankYo)) =>
             (LookupCompletes(<<"y", "o">>) => currentSuggestion' = None)
      ]_vars

\* C4 witness: Tab has committed the record; the editable holds exactly its
\* content, the caret at the end.
C4_Witness ==
    /\ value = ThankYouRecord.content
    /\ cursor = Len(ThankYouRecord.content)
    /\ dispatched = 2
    /\ currentSuggestion = None

\* C5: showing a suggestion and dismissing it with Escape change neither the
\* text nor the caret and dispatch no synthetic event; only currentSuggestion
\* and the overlay change (and the completed lookup leaves pending).  After
\* Escape no suggestion is active and no overlay is attached.
C5_EscapeLeavesTextUntouched ==
    [][/\ (SuggestionShown /\ KeyEscape) =>
             /\ value' = value /\ cursor' = cursor /\ dispatched' = dispatched
             /\ suppressedUntil' = suppressedUntil /\ isComposing' = isComposing
             /\ pending' = pending /\ timers' = timers
             /\ currentSuggestion' = None /\ ghostElement' = None
             /\ bodyOverlays' = 0
       /\ \A p \in BagToSet(pending) :
             LookupCompletes(p) =>
                 /\ value' = value /\ cursor' = cursor /\ dispatched' = dispatched
                 /\ suppressedUntil' = suppressedUntil /\ isComposing' = isComposing
                 /\ timers' = timers
      ]_vars

\* C5 witness: a suggestion that was shown for the typed word has been dismissed
\* (no lookup is left in flight, no commit and no timer has run), and the typed
\* text is still there.
C5_Witness ==
    /\ value = <<"a", "a">> /\ cursor = 2
    /\ FirstInStorageOrder(PrefixWord) # None
    /\ currentSuggestion = None /\ ghostElement = None
    /\ pending = EmptyBag /\ timers = EmptyBag
    /\ dispatched = 0 /\ now = 0

\* C6: a Tab commit sets the suppression deadline to the commit time + 500 ms,
\* and the input and change events it dispatches start no lookup and leave no
\* suggestion active; an input event that arrives before the deadline starts
\* no lookup and leaves no suggestion active either.
C6_CommitEventsSuppressed ==
    [][/\ (SuggestionShown /\ KeyTab) =>
             /\ suppressedUntil' = now + 500
             /\ pending' = pending
             /\ currentSuggestion' = None /\ ghostElement' = None
       /\ \A c \in Chars :
             (now < suppressedUntil /\ Types(c)) =>
                 /\ pending' = pending
                 /\ currentSuggestion' = None /\ ghostElement' = None
       /\ \A key \in {"Backspace", "Delete"} :
             (now < suppressedUntil /\ Deletes(key)) =>
                 /\ pending' = pending
                 /\ currentSuggestion' = None /\ ghostElement' = None
      ]_vars

\* C6 witness: a commit has just dispatched its two events; the deadline is
\* set, no lookup was started and no suggestion is active.
C6_Witness ==
    /\ dispatched = 2
    /\ now = 0 /\ suppressedUntil = 500
    /\ pending = EmptyBag
    /\ currentSuggestion = None
    /\ Len(PrefixWord) >= 2 /\ FirstInStorageOrder(PrefixWord) # None

\* C7: at most one ghost overlay of the manager is attached to the document,
\* and it is the one the manager refers to.
C7_AtMostOneOverlay ==
    /\ bodyOverlays \in {0, 1}
    /\ bodyOverlays = 1 => OverlayAttached

\* C7 witness: an overlay is attached after an earlier one was shown and
\* removed by a commit.
C7_Witness ==
    /\ bodyOverlays = 1
    /\ OverlayAttached
    /\ dispatched = 2

\* The rendered width of an overlay text, and the space between the caret and
\* the right edge of the host container.
RenderedWidth(text) == Len(text) * FontMetrics.charWidth

SpaceRightOf(rectRight) == ContainerRect.right - (rectRight - scrollLeft)

InlineHost == IsTwitter /\ kind = "contenteditable"

\* C8: on an inline-style host, when the remainder text is wider
\* than the space left between the caret and the right edge of the container,
\* no overlay node is appended.
C8_WideRemainderNotAppended ==
    [][\A p \in BagToSet(pending), r \in CaretRights :
          (/\ InlineHost
           /\ LookupCompletesAt(p, r)
           /\ currentSuggestion' # None
           /\ RenderedWidth(ghostElement'.text) > SpaceRightOf(r))
          => (~ghostElement'.attached /\ bodyOverlays' = 0)
      ]_vars

\* C9: while a composition is in progress no suggestion becomes active and no
\* overlay is created.
C9_NoSuggestionWhileComposing ==
    [][isComposing =>
          /\ currentSuggestion' = None \/ currentSuggestion' = currentSuggestion
          /\ ghostElement' = None \/ ghostElement' = ghostElement
          /\ bodyOverlays' <= bodyOverlays
      ]_vars

\* C10: once the editable is removed from the document, no suggestion is
\* active and no overlay of it is attached to the document.
C10_DetachedEditableHasNoOverlay ==
    ~inDocument =>
        /\ currentSuggestion = None
        /\ ghostElement = None
        /\ bodyOverlays = 0

\* C11: while the overlay is attached, a scroll or a resize repositions the
\* same overlay node: it stays attached with its text, on the block-style host
\* it is again 10 px inside the editable's box with the box's width less 20 px,
\* and on the inline-style host it follows the caret, which a scroll moves on
\* the viewport by the scrolled distance.
C11_ScrollRepositionsOverlay ==
    [][(OverlayAttached /\ (scrollLeft' # scrollLeft \/ boxWidth' # boxWidth)) =>
          /\ ghostElement' # None /\ ghostElement'.attached
          /\ ghostElement'.text = ghostElement.text
          /\ bodyOverlays' = bodyOverlays
          /\ ghostElement.platform = "linkedin" =>
                /\ ghostElement'.left = ContainerRect'.left + 10
                /\ ghostElement'.maxWidth = ContainerRect'.width - 20
          /\ ghostElement.platform = "twitter" =>
                ghostElement'.left + scrollLeft' = ghostElement.left + scrollLeft
      ]_vars

\* The contiguous run of non-whitespace characters of t that ends at offset n.
RECURSIVE NonWsRunEndingAt(_, _)
NonWsRunEndingAt(t, n) ==
    IF n = 0 \/ t[n] \in {" ", "\n", "\t"} THEN <<>>
    ELSE Append(NonWsRunEndingAt(t, n - 1), t[n])

\* C12: the current word getCurrentText returns is the contiguous run of
\* non-whitespace characters ending exactly at the caret, the empty string when
\* the character before the caret is whitespace.
C12_CurrentWordEndsAtCaret ==
    GetCurrentText(St) = NonWsRunEndingAt(value, cursor)

C14_FailedRangeOperationClears ==
    [][(KeyTabRangeFails \/ \E p \in BagToSet(pending) : LookupCompleteRangeFails(p)) =>
          /\ uncaught' = uncaught
          /\ currentSuggestion' = None
          /\ ghostElement' = None
          /\ bodyOverlays' = 0
      ]_vars

\* C15: whenever a suggestion is active, its text (content, or title when the
\* content is empty) starts with the current word at the caret, the case of
\* the letters aside.
C15_ActiveSuggestionExtendsWord ==
    SuggestionShown => StartsIgnoringCase(currentSuggestion, PrefixWord)

\* C16: once a Tab commit, an Escape or a blur has cleared a suggestion, no
\* suggestion becomes active until an input event is received: a lookup that
\* was in flight at the clearing event shows nothing when it completes.
C16_NoSuggestionFromStaleLookup ==
    [][staleLookups => currentSuggestion' = None]_vars

\* C17: a Tab commit, an Escape with an active suggestion and a blur each leave
\* the manager hidden: right after the handler no suggestion is active and no
\* overlay of the manager is attached to the document.
C17_ClearingEventsHide ==
    [][((SuggestionShown /\ (KeyTab \/ KeyEscape)) \/ Blur) =>
          /\ currentSuggestion' = None
          /\ ghostElement' = None
          /\ bodyOverlays' = 0
      ]_vars

\* C17 witness: an Escape or a blur has just cleared a suggestion (no commit
\* has run) while a lookup was in flight, and the manager is hidden.
C17_Witness ==
    /\ staleLookups
    /\ dispatched = 0
    /\ currentSuggestion = None
    /\ ghostElement = None
    /\ bodyOverlays = 0

\* C18: a Backspace or Delete keydown is not intercepted and arms a timer due
\* 10 ms later; when the timer fires, not before its delay has passed, the
\* suggestion and the overlay are cleared if the current word then has fewer
\* than 2 characters and are left untouched otherwise.
C18_DeleteKeyArmsRecheck ==
    [][/\ \A key \in {"Backspace", "Delete"} :
             (BagCardinality(timers') > BagCardinality(timers) /\ DeleteChar(key)) =>
                 /\ ~defaultPrevented'
                 /\ timers' = timers (+) SetToBag({now + 10})
       /\ \A due \in BagToSet(timers) :
             (timers' = timers (-) SetToBag({due})) =>
                 /\ now >= due
                 /\ value' = value /\ cursor' = cursor
                 /\ IF Len(PrefixWord) < 2
                    THEN /\ currentSuggestion' = None
                         /\ ghostElement' = None
                         /\ bodyOverlays' = 0
                    ELSE /\ currentSuggestion' = currentSuggestion
                         /\ ghostElement' = ghostElement
                         /\ bodyOverlays' = bodyOverlays
      ]_vars

\* C18 witness: a timer armed by Backspace or Delete is due while a suggestion
\* is active on a word of fewer than 2 characters.
C18_Witness ==
    /\ \E due \in BagToSet(timers) : now >= due
    /\ SuggestionShown
    /\ Len(PrefixWord) < 2

\* C19: whenever a suggestion is active, a ghost overlay for it is attached to
\* the document.
C19_ActiveSuggestionIsVisible ==
    SuggestionShown => (OverlayAttached /\ bodyOverlays = 1)

\* C20: on an inline-style host the overlay text is the remainder of the
\* matched text beyond the typed prefix, as it is when it has at most 70
\* characters and cut to its first 67 characters followed by "..." otherwise;
\* it never has more than 70 characters.
C20_InlineOverlayTextIsTruncatedRemainder ==
    [][\A p \in BagToSet(pending) :
          (InlineHost /\ LookupCompletes(p) /\ currentSuggestion' # None) =>
              LET full == IF Len(currentSuggestion'.content) > 0
                          THEN currentSuggestion'.content
                          ELSE currentSuggestion'.title
                  rest == SubSeq(full, Len(p) + 1, Len(full))
                  shown == ghostElement'.text
              IN  /\ Len(rest) <= 70 => shown = rest
                  /\ Len(rest) > 70 => shown = SubSeq(rest, 1, 67) \o <<".", ".", ".">>
                  /\ Len(shown) <= 70
      ]_vars

\* C20 witness: the overlay of the record with a remainder of 71 characters is
\* attached, its text cut to 70 characters that end in "...".
C20_Witness ==
    /\ InlineHost
    /\ currentSuggestion = Long71
    /\ OverlayAttached
    /\ Len(ghostElement.text) = 70
    /\ SubSeq(ghostElement.text, 68, 70) = <<".", ".", ".">>

\* C21: on an inline-style host, when the overlay would cross the right edge of
\* the container less 5 px, with available = container right - caret left - 10:
\* above 100 the overlay is appended with max width min(250, available), above
\* 50 and up to 100 with max width available, and at 50 or less it is not
\* appended; an appended overlay never extends past the right edge of the
\* container.
C21_WidthClampedToContainer ==
    [][\A p \in BagToSet(pending), r \in CaretRights :
          (InlineHost /\ LookupCompletesAt(p, r) /\ currentSuggestion' # None) =>
              LET overlay == ghostElement'
                  caretLeft == (r - scrollLeft) + 1
                  width == RenderedWidth(overlay.text)
                  available == ContainerRect.right - caretLeft - 10
                  shownWidth == IF width < overlay.maxWidth
                                THEN width ELSE overlay.maxWidth
              IN  /\ caretLeft + width > ContainerRect.right - 5 =>
                        /\ available > 100 =>
                              /\ overlay.attached
                              /\ overlay.maxWidth =
                                    (IF available < 250 THEN available ELSE 250)
                        /\ (available > 50 /\ available <= 100) =>
                              (overlay.attached /\ overlay.maxWidth = available)
                        /\ available <= 50 => ~overlay.attached
                  /\ overlay.attached =>
                        caretLeft + shownWidth <= ContainerRect.right
      ]_vars

\* ------------------------------------------------ the stored response list
\* The operations that write chrome.storage.local "responses".  Each reads the
\* list with chrome.storage.local.get, builds the next list in the callback
\* (or after the await) and hands it to chrome.storage.local.set.  get and set
\* are separate requests to the browser, and the content scripts of the tabs,
\* the popup and the service worker issue them independently, so a request of
\* another operation can be served between the two.

\* Date.now().toString()
DateNowString(t) == [type |-> "string", prefix |-> "", stamp |-> t, suffix |-> ""]

\* Date.now()
DateNowNumber(t) == [type |-> "number", prefix |-> "", stamp |-> t, suffix |-> ""]

\* `lh-${Date.now()}-${Math.random().toString(36).substr(2, 9)}`
LhId(t, random) ==
    [type |-> "string", prefix |-> "lh-", stamp |-> t, suffix |-> random]

\* The values Math.random().toString(36).substr(2, 9) can take.
RandomSuffixes == {"k3", "x9"}

\* The ids the backend gives to the records it saves.
ServerIds ==
    {[type |-> "string", prefix |-> "uuid-", stamp |-> 0, suffix |-> s] :
         s \in {"b", "c"}}

\* The ids of the records of a list.
IdsOf(list) == {list[k].id : k \in 1..Len(list)}

\* The ids the stored list holds or is about to hold.
IdsInUse ==
    IdsOf(cache) \cup UNION {IdsOf(w.next) : w \in BagToSet(inflight)}

\* The list GET /responses/ of the backend returns to the service worker.
BackendResponses ==
    <<[id |-> [type |-> "string", prefix |-> "uuid-", stamp |-> 0,
               suffix |-> "a"],
       title |-> "t"]>>

\* responses.findIndex((r) => r.id === id): 0 stands for -1.
FindIndex(list, id) ==
    IF \E k \in 1..Len(list) : list[k].id = id
    THEN CHOOSE k \in 1..Len(list) :
             /\ list[k].id = id
             /\ \A j \in 1..(k - 1) : list[j].id # id
    ELSE 0

\* responses.filter((r) => r.id !== id)
FilterOut(list, id) == SelectSeq(list, LAMBDA r : r.id # id)

\* An operation has read the list and built the list it will store.
Read(op, next, effect) ==
    /\ BagCardinality(inflight) < MaxInflight
    /\ Cardinality(done) + BagCardinality(inflight) < MaxOps
    /\ Len(next) <= MaxCache
    /\ inflight' = inflight (+) SetToBag({[op |-> op, next |-> next,
                                           effect |-> effect]})
    /\ UNCHANGED <<cache, dateNow, done, managerVars, discoveryVars, penVars,
                   popupVars, formatVars>>

\* createResponse of the content script.  When the backend accepts the POST
\* the function returns without touching the stored list; otherwise the
\* callback of get appends a record whose id is Date.now().toString().
CreateResponse(backendOk) ==
    IF backendOk
    THEN UNCHANGED vars
    ELSE LET newResponse == [id |-> DateNowString(dateNow), title |-> "t"]
         IN  Read("createResponse", Append(cache, newResponse),
                  <<"create", newResponse.id>>)

\* saveResponseDirectly of the content script: as createResponse, with the
\* get and the set awaited.
SaveResponseDirectly(backendOk) ==
    IF backendOk
    THEN UNCHANGED vars
    ELSE LET newResponse == [id |-> DateNowString(dateNow), title |-> "t"]
         IN  Read("saveResponseDirectly", Append(cache, newResponse),
                  <<"create", newResponse.id>>)

\* saveToLocalStorage of the content script, called when the POST of the save
\* dialog fails: the record's id is the number Date.now().
SaveToLocalStorage ==
    LET newResponse == [id |-> DateNowNumber(dateNow), title |-> "t"]
    IN  Read("saveToLocalStorage", Append(cache, newResponse),
             <<"create", newResponse.id>>)

\* saveResponse of the API utility.  With the backend the saved record carries
\* the id the backend gave it, which no other record has; without, an id
\* built from Date.now() and Math.random().  Either way the record is put at
\* the head of the list read.
SaveResponse(backendOk, serverId, random) ==
    LET saved == [id |-> serverId, title |-> "t"]
        savedResponse == [id |-> LhId(dateNow, random), title |-> "t"]
        record == IF backendOk THEN saved ELSE savedResponse
    IN  /\ backendOk => serverId \notin IdsInUse
        /\ Read("saveResponse", <<record>> \o cache, <<"create", record.id>>)

\* updateResponse of the content script on the local path: the record with
\* the id is replaced by its merge with the edited fields; the promise is
\* rejected, and nothing stored, when no record has the id.
UpdateResponse(id) ==
    LET index == FindIndex(cache, id)
    IN  IF index # 0
        THEN Read("updateResponse",
                  [cache EXCEPT ![index] = [cache[index] EXCEPT !.title = "u"]],
                  <<"update", id>>)
        ELSE UNCHANGED vars

\* deleteResponse of the content script on the local path.
DeleteResponse(id) ==
    Read("deleteResponse", FilterOut(cache, id), <<"delete", id>>)

\* The periodic synchronisation of the service worker: the list fetched from
\* the backend replaces the stored list.
BackgroundSync ==
    Read("sync", BackendResponses, <<"sync", BackendResponses[1].id>>)

\* chrome.storage.local.set of an operation is applied.
StorageSet(w) ==
    /\ BagIn(w, inflight)
    /\ cache' = w.next
    /\ inflight' = inflight (-) SetToBag({w})
    /\ done' = done \cup {w.effect}
    /\ UNCHANGED <<dateNow, managerVars, discoveryVars, penVars, popupVars, formatVars>>

\* A millisecond passes.
ClockAdvance ==
    /\ dateNow < MaxDateNow
    /\ dateNow' = dateNow + 1
    /\ UNCHANGED <<cache, inflight, done, managerVars, discoveryVars,
                   penVars, popupVars, formatVars>>

\* The manager of the core specification, idle.
ManagerIdle ==
    /\ InitWith(Caches)
    /\ kind = "contenteditable"
    /\ hostname = "www.linkedin.com"

InitStorage == ManagerIdle /\ OthersIdle

NextStorage ==
    \/ \E backendOk \in BOOLEAN : CreateResponse(backendOk)
    \/ \E backendOk \in BOOLEAN : SaveResponseDirectly(backendOk)
    \/ SaveToLocalStorage
    \/ \E backendOk \in BOOLEAN, serverId \in ServerIds,
          random \in RandomSuffixes :
           SaveResponse(backendOk, serverId, random)
    \/ \E k \in 1..Len(cache) : UpdateResponse(cache[k].id)
    \/ \E k \in 1..Len(cache) : DeleteResponse(cache[k].id)
    \/ BackgroundSync
    \/ \E w \in BagToSet(inflight) : StorageSet(w)
    \/ ClockAdvance

\* The write operations on the stored list, issued by the content scripts, the
\* popup and the service worker in any interleaving.
SpecStorage == InitStorage /\ [][NextStorage]_vars

\* C22: no update to the stored list is lost: once every write operation that
\* was started has completed, the list holds every record that was created and
\* not deleted, and every updated record that was not deleted has its edited
\* fields, also when the operations overlapped (each read the list before the
\* other's set was applied).
C22_NoLostUpdate ==
    inflight = EmptyBag =>
        \A e \in done :
            (e[1] \in {"create", "update"} /\ <<"delete", e[2]>> \notin done
               /\ ~ \E s \in done : s[1] = "sync") =>
                /\ e[2] \in IdsOf(cache)
                /\ e[1] = "update" =>
                       \E k \in 1..Len(cache) :
                           cache[k].id = e[2] /\ cache[k].title = "u"

\* C23: no two records of the stored list have the same id, and every record
\* has a string id.
C23_IdsUniqueStrings ==
    /\ \A j, k \in 1..Len(cache) : cache[j].id = cache[k].id => j = k
    /\ \A k \in 1..Len(cache) : cache[k].id.type = "string"

\* ------------------------------------------------ discovery of the editables
\* addMessageHelpers scans the document for editables and attaches the helpers
\* and an InlineSuggestionManager to each one it has not processed.  It is run
\* by init, one second after the mutation observer has seen an editable added,
\* and every three seconds on LinkedIn and Twitter/X.  Every element of the
\* model matches one of the selectors and is its own resolved editable.

ElementSet == {Elements[k] : k \in 1..Len(Elements)}

\* The id attributes the host page gives to its elements; "" is no id.
PageIds == {"", "editor"}

\* The values `sh-box-${Math.random().toString(36).substring(2, 11)}` takes,
\* in the order they are drawn: no two draws give the same value.
GeneratedIds == <<"sh-box-1", "sh-box-2", "sh-box-3">>

\* The places in GeneratedIds of the values not drawn so far.
NotDrawn(d, injected) ==
    LET used == {d[e].id : e \in ElementSet} \cup injected
    IN  {k \in 1..Len(GeneratedIds) : GeneratedIds[k] \notin used}

\* The next value drawn.
NextGeneratedId(d, injected) ==
    LET free == NotDrawn(d, injected)
    IN  GeneratedIds[CHOOSE k \in free : \A j \in free : k <= j]

\* The model has a value left to draw for every element of the document
\* that has no id.
CanDrawIds(d) ==
    Cardinality({e \in ElementSet : d[e].present /\ d[e].id = ""})
        <= Cardinality(NotDrawn(d, injectedElements))

\* The body of messageBoxes.forEach for one element, on the record s of dom,
\* injectedElements and suggestionManagers.  The branch taken when a pen
\* button is found near the box and the branch that creates the buttons treat
\* the two collections alike.
ProcessBox(s, e) ==
    LET box == s.dom[e]
        id == IF box.id = ""
              THEN NextGeneratedId(s.dom, s.injectedElements) ELSE box.id
        withId == [s EXCEPT !.dom[e].id = id]
    IN  IF ~box.present \/ ~box.passes THEN s
        ELSE IF id \in withId.injectedElements THEN withId
        ELSE [withId EXCEPT
                 !.suggestionManagers =
                     IF \E m \in @ : m.id = id THEN @
                     ELSE @ \cup {[id |-> id, element |-> e]},
                 !.injectedElements = @ \cup {id}]

RECURSIVE ProcessBoxes(_, _)
ProcessBoxes(s, k) ==
    IF k > Len(Elements) THEN s
    ELSE ProcessBoxes(ProcessBox(s, Elements[k]), k + 1)

\* addMessageHelpers()
AddMessageHelpers ==
    LET s == ProcessBoxes([dom |-> dom, injectedElements |-> injectedElements,
                           suggestionManagers |-> suggestionManagers], 1)
    IN  /\ dom' = s.dom
        /\ injectedElements' = s.injectedElements
        /\ suggestionManagers' = s.suggestionManagers

\* The periodic scan.
PeriodicScan ==
    /\ IsLinkedInOrTwitterHost
    /\ AddMessageHelpers
    /\ scanParity' = 1 - scanParity
    /\ UNCHANGED <<rescanTimers, managerVars, storageVars, penVars, popupVars, formatVars>>

\* The timeout the mutation observer armed fires.
MutationRescan ==
    /\ rescanTimers > 0
    /\ rescanTimers' = rescanTimers - 1
    /\ AddMessageHelpers
    /\ UNCHANGED <<scanParity, managerVars, storageVars, penVars, popupVars, formatVars>>

\* The host page inserts a new element, with the id the page gives it, which
\* no element of the document has.  The mutation observer sees an editable
\* among the added nodes and arms the timeout of the re-scan.
PageAddsElement(e, id, passes) ==
    /\ ~dom[e].present
    /\ \A m \in suggestionManagers : m.element # e
    /\ id # "" => \A o \in ElementSet : dom[o].present => dom[o].id # id
    /\ rescanTimers < MaxRescanTimers
    /\ dom' = [dom EXCEPT ![e] = [present |-> TRUE, id |-> id,
                                  passes |-> passes]]
    /\ CanDrawIds(dom')
    /\ rescanTimers' = rescanTimers + 1
    /\ UNCHANGED <<injectedElements, suggestionManagers, scanParity,
                   managerVars, storageVars, penVars, popupVars, formatVars>>

\* The host page puts back an element it had removed.
PageReinsertsElement(e) ==
    /\ ~dom[e].present
    /\ \E m \in suggestionManagers : m.element = e
    /\ \A o \in ElementSet : dom[o].present => dom[o].id # dom[e].id
    /\ rescanTimers < MaxRescanTimers
    /\ dom' = [dom EXCEPT ![e].present = TRUE]
    /\ CanDrawIds(dom')
    /\ rescanTimers' = rescanTimers + 1
    /\ UNCHANGED <<injectedElements, suggestionManagers, scanParity,
                   managerVars, storageVars, penVars, popupVars, formatVars>>

\* The host page removes an element.  The mutation observer looks at added nodes only, and nothing
\* removes an entry of the two collections.
PageRemovesElement(e) ==
    /\ dom[e].present
    /\ dom' = [dom EXCEPT ![e].present = FALSE]
    /\ UNCHANGED <<injectedElements, suggestionManagers, rescanTimers,
                   scanParity, managerVars, storageVars, penVars, popupVars, formatVars>>

\* The host page changes the size or the visibility of an element: no node is
\* added, so the mutation observer arms nothing.
PageChangesLayout(e) ==
    /\ dom[e].present
    /\ dom' = [dom EXCEPT ![e].passes = ~@]
    /\ UNCHANGED <<injectedElements, suggestionManagers, rescanTimers,
                   scanParity, managerVars, storageVars, penVars, popupVars, formatVars>>

\* The host page re-renders an element of the document with another id
\* attribute.
PageSetsId(e, id) ==
    /\ dom[e].present
    /\ dom[e].id # id
    /\ id # "" => \A o \in ElementSet : dom[o].present => dom[o].id # id
    /\ dom' = [dom EXCEPT ![e].id = id]
    /\ CanDrawIds(dom')
    /\ UNCHANGED <<injectedElements, suggestionManagers, rescanTimers,
                   scanParity, managerVars, storageVars, penVars, popupVars, formatVars>>

InitDiscovery == ManagerIdle /\ OthersIdle

NextDiscovery ==
    \/ PeriodicScan
    \/ MutationRescan
    \/ \E e \in ElementSet, id \in PageIds, passes \in BOOLEAN :
           PageAddsElement(e, id, passes)
    \/ \E e \in ElementSet : PageReinsertsElement(e)
    \/ \E e \in ElementSet : PageRemovesElement(e)
    \/ \E e \in ElementSet : PageChangesLayout(e)

\* The scans of a page whose editables come and go, each keeping the id
\* attribute it has.
SpecDiscovery == InitDiscovery /\ [][NextDiscovery]_vars

\* ... where setInterval keeps running the periodic scan and the timeout of
\* the mutation observer fires.
FairDiscovery ==
    /\ SpecDiscovery
    /\ WF_vars(PeriodicScan)
    /\ WF_vars(MutationRescan)

NextRerender ==
    \/ NextDiscovery
    \/ \E e \in ElementSet, id \in PageIds : PageSetsId(e, id)

\* ... with the page also re-rendering its elements with other ids.
SpecRerender == InitDiscovery /\ [][NextRerender]_vars

\* The element is in the document and passes the filters of the scan.
Discoverable(e) == dom[e].present /\ dom[e].passes

\* The managers constructed on the element.
ManagersOn(e) == {m \in suggestionManagers : m.element = e}

\* C24: every editable that is in the document and passes the filters of the
\* scan eventually has an InlineSuggestionManager (unless it leaves the
\* document or stops passing the filters first), also when it has replaced an
\* element that had one.
C24_DiscoverableEventuallyManaged ==
    \A e \in ElementSet :
        Discoverable(e) ~> (ManagersOn(e) # {} \/ ~Discoverable(e))

\* C25: no editable has more than one InlineSuggestionManager constructed on
\* it (the listeners of a manager are never removed).
C25_AtMostOneManagerPerEditable ==
    \A e \in ElementSet : Cardinality(ManagersOn(e)) <= 1

\* ------------------------------------------------------------ the pen button
\* positionPenButton: the button of an editable is shown 200 ms after a
\* focus, an input or a mouseenter on the editable, and hidden 1500 ms after a
\* blur or a mouseleave, unless the pointer is over it or the editable has the
\* focus.  The closures share isVisible, showTimeout and hideTimeout, which the
\* operators below take and return as a record.

PenState ==
    [isVisible |-> isVisible, showTimeout |-> showTimeout,
     hideTimeout |-> hideTimeout, lastTrigger |-> lastTrigger]

PenBecomes(s) ==
    /\ isVisible' = s.isVisible
    /\ showTimeout' = s.showTimeout
    /\ hideTimeout' = s.hideTimeout
    /\ lastTrigger' = s.lastTrigger

\* window.setTimeout(callback, delay)
SetTimeout(delay) == [remaining |-> delay]

ShowPenButtonKeepsHide(s) ==
    [s EXCEPT !.showTimeout = SetTimeout(PenShowDelayMs)]

\* showPenButton
ShowPenButton(s) ==
    [s EXCEPT !.hideTimeout = None,
              !.showTimeout = SetTimeout(PenShowDelayMs)]

HidePenButtonKeepsShow(s) ==
    [s EXCEPT !.hideTimeout = SetTimeout(PenHideDelayMs)]

\* hidePenButton
HidePenButton(s) ==
    [s EXCEPT !.showTimeout = None,
              !.hideTimeout = SetTimeout(PenHideDelayMs)]

\* updatePosition: an editable whose box has no width or no height has its
\* button hidden; otherwise the button is moved (its place is not modelled).
UpdatePosition(s, empty) ==
    IF empty THEN HidePenButton(s) ELSE s

\* The history after a listener of the event has called showPenButton or
\* hidePenButton.
Triggered(s, event) == [s EXCEPT !.lastTrigger = [kind |-> event, age |-> 0]]

\* The callback of showTimeout.
ShowTimeoutCallback(s, empty) ==
    IF ~s.isVisible
    THEN [UpdatePosition(s, empty) EXCEPT !.isVisible = TRUE]
    ELSE s

HideTimeoutCallbackIgnoresFocus(s, hover, focus) ==
    IF s.isVisible /\ ~hover THEN [s EXCEPT !.isVisible = FALSE] ELSE s

\* The callback of hideTimeout, given penButton.matches(":hover") and
\* inputElement.matches(":focus").
HideTimeoutCallback(s, hover, focus) ==
    IF s.isVisible /\ ~hover /\ ~focus
    THEN [s EXCEPT !.isVisible = FALSE]
    ELSE s

\* updateHandler, the listener of scroll and resize.
UpdateHandler(s, empty) ==
    IF s.isVisible THEN UpdatePosition(s, empty) ELSE s

\* The editable receives the focus.
PenFocus ==
    /\ penAttached /\ ~focused
    /\ focused' = TRUE
    /\ PenBecomes(Triggered(ShowPenButton(PenState), "focus"))
    /\ UNCHANGED <<pointer, boxEmpty, penAttached, managerVars, storageVars,
                   discoveryVars, popupVars, formatVars>>

\* The editable loses the focus.
PenBlur ==
    /\ penAttached /\ focused
    /\ focused' = FALSE
    /\ PenBecomes(Triggered(HidePenButton(PenState), "blur"))
    /\ UNCHANGED <<pointer, boxEmpty, penAttached, managerVars, storageVars,
                   discoveryVars, popupVars, formatVars>>

\* The user types in the editable.
PenInput ==
    /\ penAttached /\ focused
    /\ PenBecomes(Triggered(ShowPenButton(PenState), "input"))
    /\ UNCHANGED <<focused, pointer, boxEmpty, penAttached, managerVars,
                   storageVars, discoveryVars, popupVars, formatVars>>

\* The pointer moves to another place: mouseleave is delivered to what it
\* leaves, then mouseenter to what it enters.  The listener of mouseenter of
\* the button clears hideTimeout and arms nothing.
PointerMoves(to) ==
    LET left == IF pointer \in {"editable", "button"}
                THEN Triggered(HidePenButton(PenState), "mouseleave")
                ELSE PenState
        entered == IF to = "editable"
                   THEN Triggered(ShowPenButton(left), "mouseenter")
                   ELSE IF to = "button" THEN [left EXCEPT !.hideTimeout = None]
                   ELSE left
    IN  /\ penAttached
        /\ to # pointer
        /\ to = "editable" => ~boxEmpty
        /\ pointer' = to
        /\ PenBecomes(entered)
        /\ UNCHANGED <<focused, boxEmpty, penAttached, managerVars,
                       storageVars, discoveryVars, popupVars, formatVars>>

\* showTimeout fires.
PenShowTimeoutFires ==
    /\ penAttached
    /\ showTimeout # None /\ showTimeout.remaining = 0
    /\ PenBecomes(ShowTimeoutCallback([PenState EXCEPT !.showTimeout = None],
                                      boxEmpty))
    /\ UNCHANGED <<focused, pointer, boxEmpty, penAttached, managerVars,
                   storageVars, discoveryVars, popupVars, formatVars>>

\* hideTimeout fires.
PenHideTimeoutFires ==
    /\ penAttached
    /\ hideTimeout # None /\ hideTimeout.remaining = 0
    /\ PenBecomes(HideTimeoutCallback([PenState EXCEPT !.hideTimeout = None],
                                      pointer = "button", focused))
    /\ UNCHANGED <<focused, pointer, boxEmpty, penAttached, managerVars,
                   storageVars, discoveryVars, popupVars, formatVars>>

\* The time left of a timeout after d ms.
After(timeout, d) ==
    IF timeout = None THEN None
    ELSE [remaining |-> timeout.remaining - d]

\* d ms pass without an event; no timeout is due before.
PenTimePasses(d) ==
    /\ penAttached
    /\ showTimeout # None => showTimeout.remaining >= d
    /\ hideTimeout # None => hideTimeout.remaining >= d
    /\ showTimeout' = After(showTimeout, d)
    /\ hideTimeout' = After(hideTimeout, d)
    /\ lastTrigger' = [lastTrigger EXCEPT
                          !.age = Min(@ + d, PenHideDelayMs)]
    /\ UNCHANGED <<isVisible, focused, pointer, boxEmpty, penAttached,
                   managerVars, storageVars, discoveryVars, popupVars, formatVars>>

\* The window is scrolled or resized.
PenWindowScrolls ==
    /\ penAttached
    /\ PenBecomes(UpdateHandler(PenState, boxEmpty))
    /\ UNCHANGED <<focused, pointer, boxEmpty, penAttached, managerVars,
                   storageVars, discoveryVars, popupVars, formatVars>>

\* The page collapses the editable's box, or gives it a size again.  A box
\* that collapses under the pointer is left by it: the browser delivers
\* mouseleave.
PageCollapsesEditable ==
    /\ penAttached
    /\ boxEmpty' = ~boxEmpty
    /\ IF pointer = "editable"
       THEN /\ pointer' = "away"
            /\ PenBecomes(Triggered(HidePenButton(PenState), "mouseleave"))
       ELSE UNCHANGED <<pointer, isVisible, showTimeout, hideTimeout,
                        lastTrigger>>
    /\ UNCHANGED <<focused, penAttached, managerVars, storageVars,
                   discoveryVars, popupVars, formatVars>>

\* The page removes the editable: the mutation observer of positionPenButton
\* clears both timeouts and removes the button from the document.
PenEditableRemoved ==
    /\ penAttached
    /\ penAttached' = FALSE
    /\ showTimeout' = None
    /\ hideTimeout' = None
    /\ focused' = FALSE
    /\ pointer' = "away"
    /\ UNCHANGED <<isVisible, lastTrigger, boxEmpty, managerVars, storageVars,
                   discoveryVars, popupVars, formatVars>>

\* Where the pointer can be.
PointerPlaces == {"away", "editable", "button"}

\* The times that pass between two events.
PenTimeSteps == {100, 200, 1300}

InitPen == ManagerIdle /\ OthersIdle

NextPen ==
    \/ PenFocus
    \/ PenBlur
    \/ PenInput
    \/ \E to \in PointerPlaces : PointerMoves(to)
    \/ PenShowTimeoutFires
    \/ PenHideTimeoutFires
    \/ \E d \in PenTimeSteps : PenTimePasses(d)
    \/ PenWindowScrolls
    \/ PageCollapsesEditable
    \/ PenEditableRemoved

\* The pen button of one editable.
SpecPen == InitPen /\ [][NextPen]_vars

\* The events whose listener is showPenButton, and those whose listener is
\* hidePenButton.
ShowTriggers == {"focus", "input", "mouseenter"}
HideTriggers == {"blur", "mouseleave"}

C27_AtMostOneTimerPending ==
    [][/\ ~(showTimeout' # None /\ hideTimeout' # None)
       /\ (lastTrigger' # lastTrigger /\ lastTrigger'.age = 0) =>
              IF lastTrigger'.kind \in ShowTriggers
              THEN /\ showTimeout' = SetTimeout(PenShowDelayMs)
                   /\ hideTimeout' = None
              ELSE /\ hideTimeout' = IF pointer # "button" /\ pointer' = "button"
                                    THEN None
                                    ELSE SetTimeout(PenHideDelayMs)
                   /\ showTimeout' = None
      ]_vars

\* The editable lost the focus before the show timeout of its focus fired, and
\* 200 ms or more after the blur the button is still not visible: the
\* superseded show timeout has not fired.
C27_Witness ==
    /\ penAttached
    /\ ~isVisible
    /\ lastTrigger.kind = "blur"
    /\ lastTrigger.age >= PenShowDelayMs
    /\ lastTrigger.age < PenHideDelayMs

\* C28: the button does not change from visible to hidden while the editable
\* has the focus or the pointer is over the button.
C28_VisibleWhileFocusedOrHovered ==
    [][(isVisible /\ ~isVisible') => (~focused /\ pointer # "button")]_vars

\* The hide timeout armed by a mouseleave has fired while the editable had the
\* focus, and the button is still visible.
C28_Witness ==
    /\ isVisible
    /\ focused
    /\ pointer = "away"
    /\ hideTimeout = None
    /\ lastTrigger = [kind |-> "mouseleave", age |-> PenHideDelayMs]

\* ---------------------------------------------------------------------------
\* The popup: creating, editing and deleting saved responses (App).
\* The record's title stands for the form's title, content and tags; the
\* backend and chrome.storage.local are one store, the variable cache, which
\* the calls of utils/api read and write in one step each.
\* ---------------------------------------------------------------------------

\* What the user can have in the title field of the modal.
PopupInputs == {" ", "t", " u"}

\* title.trim()
TrimTitle(s) ==
    CASE s = " " -> ""
      [] s = " u" -> "u"
      [] OTHER -> s

\* The list the store holds when the popup is opened.
PopupStored ==
    <<[id |-> [type |-> "string", prefix |-> "uuid-", stamp |-> 0,
               suffix |-> "b"],
       title |-> "t"],
      [id |-> [type |-> "string", prefix |-> "uuid-", stamp |-> 0,
               suffix |-> "c"],
       title |-> "t"]>>

\* { ...r, ...updated }; updated is None when the store has no such record.
Merge(r, updated) ==
    IF updated = None THEN r ELSE [r EXCEPT !.title = updated.title]

\* list.map((r) => r.id === id ? { ...r, ...data } : r)
MapMerge(list, id, data) ==
    [k \in 1..Len(list) |->
        IF list[k].id = id THEN Merge(list[k], data) ELSE list[k]]

\* A rollback that leaves the list as it is displayed.
RollbackKeepsCurrent(prev, cur) == cur

\* The catch of the edit flow: setResponses(prev).
Rollback(prev, cur) == prev

\* The saves and deletions the popup makes in one run.
MaxPopupOps == 2

\* The popup may start another save or deletion: those completed and those
\* under way are fewer than MaxPopupOps.
MayStart ==
    Cardinality(done) + Cardinality(deletingIds)
        + (IF pendingSave # None THEN 1 ELSE 0) < MaxPopupOps

\* openCreateModal, from the list.
OpenCreateModal ==
    /\ ~showModal
    /\ isEditing' = FALSE
    /\ editingId' = None
    /\ title' = ""
    /\ showModal' = TRUE
    /\ UNCHANGED <<popupResponses, saving, notification, pendingSave,
                   deletingIds, managerVars, storageVars, discoveryVars,
                   penVars, formatVars>>

\* openEditModal(r), from the card of r.
OpenEditModal(r) ==
    /\ ~showModal
    /\ isEditing' = TRUE
    /\ editingId' = r.id
    /\ title' = r.title
    /\ showModal' = TRUE
    /\ UNCHANGED <<popupResponses, saving, notification, pendingSave,
                   deletingIds, managerVars, storageVars, discoveryVars,
                   penVars, formatVars>>

\* A click on the overlay or on the close button of the modal, which are not
\* disabled while saving.
CloseModal ==
    /\ showModal
    /\ showModal' = FALSE
    /\ UNCHANGED <<popupResponses, saving, isEditing, editingId, title,
                   notification, pendingSave, deletingIds, managerVars,
                   storageVars, discoveryVars, penVars, formatVars>>

\* The user types in the title field.
SetTitle(s) ==
    /\ showModal
    /\ s # title
    /\ title' = s
    /\ UNCHANGED <<popupResponses, saving, showModal, isEditing, editingId,
                   notification, pendingSave, deletingIds, managerVars,
                   storageVars, discoveryVars, penVars, formatVars>>

\* handleSave up to its first await; the save button is disabled while
\* saving.
HandleSave ==
    /\ showModal
    /\ ~saving
    /\ IF TrimTitle(title) = ""
       THEN /\ notification' = "required"
            /\ UNCHANGED <<popupResponses, saving, pendingSave>>
       ELSE LET baseData == [title |-> TrimTitle(title)]
            IN  /\ MayStart
                /\ IF isEditing /\ editingId # None
                   THEN /\ popupResponses' =
                               MapMerge(popupResponses, editingId, baseData)
                        /\ saving' = TRUE
                        /\ notification' = "saving"
                        /\ pendingSave' = [flow |-> "edit",
                                           prev |-> popupResponses,
                                           editingId |-> editingId,
                                           baseData |-> baseData]
                   ELSE /\ saving' = TRUE
                        /\ notification' = "saving"
                        /\ pendingSave' = [flow |-> "create",
                                           prev |-> popupResponses,
                                           editingId |-> None,
                                           baseData |-> baseData]
                        /\ UNCHANGED popupResponses
    /\ UNCHANGED <<showModal, isEditing, editingId, title, deletingIds,
                   managerVars, storageVars, discoveryVars, penVars, formatVars>>

\* updateResponse resolves: the store has merged the data into the record of
\* this id, and the edit flow continues after its await.
UpdateResolves ==
    /\ pendingSave # None
    /\ pendingSave.flow = "edit"
    /\ LET id == pendingSave.editingId
           next == MapMerge(cache, id, pendingSave.baseData)
           index == FindIndex(next, id)
           updated == IF index # 0 THEN next[index] ELSE None
       IN  /\ cache' = next
           /\ popupResponses' = MapMerge(popupResponses, id, updated)
    /\ done' = done \cup {<<"update", pendingSave.editingId>>}
    /\ showModal' = FALSE
    /\ saving' = FALSE
    /\ notification' = "updated"
    /\ pendingSave' = None
    /\ UNCHANGED <<isEditing, editingId, title, deletingIds, inflight,
                   dateNow, managerVars, discoveryVars, penVars, formatVars>>

\* updateResponse rejects (chrome.storage throws): the catch of the edit
\* flow.
UpdateRejects ==
    /\ pendingSave # None
    /\ pendingSave.flow = "edit"
    /\ popupResponses' = Rollback(pendingSave.prev, popupResponses)
    /\ saving' = FALSE
    /\ notification' = "failed"
    /\ pendingSave' = None
    /\ UNCHANGED <<showModal, isEditing, editingId, title, deletingIds,
                   managerVars, storageVars, discoveryVars, penVars, formatVars>>

\* saveResponse resolves and the create flow continues: the modal is closed,
\* the form is cleared and load() displays the stored list.
CreateResolves(random) ==
    /\ pendingSave # None
    /\ pendingSave.flow = "create"
    /\ Len(cache) < MaxCache
    /\ LhId(dateNow, random) \notin IdsOf(cache)
    /\ cache' = <<[id |-> LhId(dateNow, random),
                   title |-> pendingSave.baseData.title]>> \o cache
    /\ done' = done \cup {<<"create", LhId(dateNow, random)>>}
    /\ popupResponses' = cache'
    /\ showModal' = FALSE
    /\ title' = ""
    /\ saving' = FALSE
    /\ notification' = "saved"
    /\ pendingSave' = None
    /\ UNCHANGED <<isEditing, editingId, deletingIds, inflight, dateNow,
                   managerVars, discoveryVars, penVars, formatVars>>

\* saveResponse rejects: the catch and the finally of the create flow.
CreateRejects ==
    /\ pendingSave # None
    /\ pendingSave.flow = "create"
    /\ saving' = FALSE
    /\ notification' = "savefailed"
    /\ pendingSave' = None
    /\ UNCHANGED <<popupResponses, showModal, isEditing, editingId, title,
                   deletingIds, managerVars, storageVars, discoveryVars,
                   penVars, formatVars>>

\* handleDelete(id) with the confirmation accepted: the card slides out and
\* the deletion is scheduled.
HandleDelete(id) ==
    /\ ~showModal
    /\ id \notin deletingIds
    /\ MayStart
    /\ deletingIds' = deletingIds \cup {id}
    /\ UNCHANGED <<popupResponses, saving, showModal, isEditing, editingId,
                   title, notification, pendingSave, managerVars,
                   storageVars, discoveryVars, penVars, formatVars>>

\* The callback handleDelete scheduled: deleteResponse(id), then load()
\* displays the stored list.
DeleteCompletes(id) ==
    /\ id \in deletingIds
    /\ cache' = FilterOut(cache, id)
    /\ done' = done \cup {<<"delete", id>>}
    /\ popupResponses' = cache'
    /\ deletingIds' = deletingIds \ {id}
    /\ notification' = "deleted"
    /\ UNCHANGED <<saving, showModal, isEditing, editingId, title,
                   pendingSave, inflight, dateNow, managerVars,
                   discoveryVars, penVars, formatVars>>

\* deleteResponse rejects: the catch of the callback.
DeleteFails(id) ==
    /\ id \in deletingIds
    /\ deletingIds' = deletingIds \ {id}
    /\ notification' = "deletefailed"
    /\ UNCHANGED <<popupResponses, saving, showModal, isEditing, editingId,
                   title, pendingSave, managerVars, storageVars,
                   discoveryVars, penVars, formatVars>>

\* The timeout that clears the notification.
NotificationExpires ==
    /\ notification # ""
    /\ notification' = ""
    /\ UNCHANGED <<popupResponses, saving, showModal, isEditing, editingId,
                   title, pendingSave, deletingIds, managerVars, storageVars,
                   discoveryVars, penVars, formatVars>>

\* The popup has been opened and its first load() has displayed the stored
\* list.
InitPopup ==
    /\ ManagerIdle
    /\ DiscoveryIdle
    /\ PenIdle
    /\ FormatIdle
    /\ cache = PopupStored
    /\ inflight = EmptyBag
    /\ dateNow = 1
    /\ done = {}
    /\ popupResponses = cache
    /\ saving = FALSE
    /\ showModal = FALSE
    /\ isEditing = FALSE
    /\ editingId = None
    /\ title = ""
    /\ notification = ""
    /\ pendingSave = None
    /\ deletingIds = {}

NextPopup ==
    \/ OpenCreateModal
    \/ \E k \in 1..Len(popupResponses) : OpenEditModal(popupResponses[k])
    \/ CloseModal
    \/ \E s \in PopupInputs : SetTitle(s)
    \/ HandleSave
    \/ UpdateResolves
    \/ UpdateRejects
    \/ \E random \in RandomSuffixes : CreateResolves(random)
    \/ CreateRejects
    \/ \E k \in 1..Len(popupResponses) : HandleDelete(popupResponses[k].id)
    \/ \E id \in deletingIds : DeleteCompletes(id)
    \/ \E id \in deletingIds : DeleteFails(id)
    \/ NotificationExpires

\* The popup in use: the modal, the saves and the deletions in any
\* interleaving.
SpecPopup == InitPopup /\ [][NextPopup]_vars

\* Two lists of the same length differ at most at the records of this id.
SameExceptId(a, b, id) ==
    /\ Len(a) = Len(b)
    /\ \A k \in 1..Len(a) : a[k] # b[k] => a[k].id = id

\* The edit flow starts waiting for updateResponse in this step.
EditStarts ==
    /\ pendingSave = None
    /\ pendingSave' # None
    /\ pendingSave'.flow = "edit"

\* The edit flow ends in this step with this notification.
EditEnds(outcome) ==
    /\ pendingSave # None
    /\ pendingSave.flow = "edit"
    /\ pendingSave' = None
    /\ notification' = outcome

\* C29, as the code has it: the list is updated optimistically before
\* updateResponse completes (the displayed list changes at the edited record
\* only, saving is true and the store is untouched); on failure the displayed
\* list is exactly the list displayed before the optimistic update and saving
\* is false; on success saving is false and only the record with the edited
\* id differs from the list displayed when updateResponse completed.
C29_OptimisticEditRollsBack ==
    [][/\ EditStarts =>
            /\ saving'
            /\ cache' = cache
            /\ pendingSave'.prev = popupResponses
            /\ pendingSave'.editingId = editingId
            /\ SameExceptId(popupResponses, popupResponses', editingId)
            /\ \A k \in 1..Len(popupResponses) :
                   popupResponses[k].id = editingId =>
                       popupResponses'[k].title = TrimTitle(title)
       /\ EditEnds("failed") =>
            /\ popupResponses' = pendingSave.prev
            /\ ~saving'
       /\ EditEnds("updated") =>
            /\ SameExceptId(popupResponses, popupResponses',
                            pendingSave.editingId)
            /\ ~saving']_vars

\* C29, the success clause as stated: on success only the record with the
\* edited id differs from the list displayed before the edit.
C29_SuccessDiffersFromBeforeOnlyAtEdited ==
    [][EditEnds("updated") =>
           SameExceptId(pendingSave.prev, popupResponses',
                        pendingSave.editingId)]_vars

\* An edit of the title from "t" to " u" has failed and the list shows the old
\* titles again, the modal still open on the new one.
C29_Witness ==
    /\ notification = "failed"
    /\ pendingSave = None
    /\ ~saving
    /\ showModal
    /\ isEditing
    /\ title = " u"
    /\ popupResponses = PopupStored

\* ---------------------------------------------------------------------------
\* The text formatter (utils/textFormatter). A character is its code point
\* and a string the sequence of its code points, as for (const char of text)
\* walks it.
\* ---------------------------------------------------------------------------

\* The longest string formatted and the most functions applied to it.
MaxTextLen == 2
MaxApplied == 2

\* The first code points of the blocks of UNICODE_MAPS.
BoldUpperFirst == 119808
BoldLowerFirst == 119834
BoldNumbersFirst == 120782
ItalicUpperFirst == 119860
ItalicLowerFirst == 119886
BoldItalicUpperFirst == 119912
BoldItalicLowerFirst == 119938

\* The last code point toRegular and hasFormatting take as formatted.
MathAlphanumericLast == 120831

\* The character the italic map has for 'h', U+210E.
PlanckConstant == 8462

\* The code points of 'A', 'a' and '0'.
UpperA == 65
LowerA == 97
Digit0 == 48

\* The characters of the strings formatted: A, Z, a, h, z, 0, 9, space,
\* full stop.
CodePoints == {65, 90, 97, 104, 122, 48, 57, 32, 46}

\* The strings of at most MaxTextLen of these characters.
Texts == UNION {[1..n -> CodePoints] : n \in 0..MaxTextLen}

\* REGULAR.upper.indexOf(char), REGULAR.lower.indexOf(char) and
\* REGULAR.numbers.indexOf(char).
IndexOfIn(first, length, char) ==
    IF char >= first /\ char < first + length THEN char - first ELSE -1

\* UNICODE_MAPS
UNICODE_MAPS ==
    [bold |->
        [upper |-> [i \in 0..25 |-> BoldUpperFirst + i],
         lower |-> [i \in 0..25 |-> BoldLowerFirst + i],
         numbers |-> [i \in 0..9 |-> BoldNumbersFirst + i]],
     italic |->
        [upper |-> [i \in 0..25 |-> ItalicUpperFirst + i],
         lower |-> [i \in 0..25 |->
                      IF i = 7 THEN PlanckConstant ELSE ItalicLowerFirst + i],
         numbers |-> [i \in 0..9 |-> Digit0 + i]],
     boldItalic |->
        [upper |-> [i \in 0..25 |-> BoldItalicUpperFirst + i],
         lower |-> [i \in 0..25 |-> BoldItalicLowerFirst + i],
         numbers |-> [i \in 0..9 |-> BoldNumbersFirst + i]]]

\* The body of the loop of transformText.
TransformChar(char, mapping) ==
    LET upperIndex == IndexOfIn(UpperA, 26, char)
        lowerIndex == IndexOfIn(LowerA, 26, char)
        numberIndex == IndexOfIn(Digit0, 10, char)
    IN  IF upperIndex # -1 THEN mapping.upper[upperIndex]
        ELSE IF lowerIndex # -1 THEN mapping.lower[lowerIndex]
        ELSE IF numberIndex # -1 THEN mapping.numbers[numberIndex]
        ELSE char

\* transformText
TransformText(text, mapping) ==
    [k \in 1..Len(text) |-> TransformChar(text[k], mapping)]

\* toBold
ToBold(text) == TransformText(text, UNICODE_MAPS.bold)

\* toItalic
ToItalic(text) == TransformText(text, UNICODE_MAPS.italic)

\* toBoldItalic
ToBoldItalic(text) == TransformText(text, UNICODE_MAPS.boldItalic)

\* unicodeToRegular
UnicodeToRegular(code) ==
    IF code = 0 THEN code
    ELSE IF code >= BoldUpperFirst /\ code <= BoldUpperFirst + 25
    THEN UpperA + (code - BoldUpperFirst)
    ELSE IF code >= BoldLowerFirst /\ code <= BoldLowerFirst + 25
    THEN LowerA + (code - BoldLowerFirst)
    ELSE IF code >= BoldNumbersFirst /\ code <= BoldNumbersFirst + 9
    THEN Digit0 + (code - BoldNumbersFirst)
    ELSE IF code >= ItalicUpperFirst /\ code <= ItalicUpperFirst + 25
    THEN UpperA + (code - ItalicUpperFirst)
    ELSE IF code >= ItalicLowerFirst /\ code <= ItalicLowerFirst + 25
    THEN LowerA + (code - ItalicLowerFirst)
    ELSE IF code = PlanckConstant
    THEN LowerA + 7
    ELSE IF code >= BoldItalicUpperFirst /\ code <= BoldItalicUpperFirst + 25
    THEN UpperA + (code - BoldItalicUpperFirst)
    ELSE IF code >= BoldItalicLowerFirst /\ code <= BoldItalicLowerFirst + 25
    THEN LowerA + (code - BoldItalicLowerFirst)
    ELSE code

\* The body of the loop of toRegular.
ToRegularChar(code) ==
    IF code = 0 THEN code
    ELSE IF code >= BoldUpperFirst /\ code <= MathAlphanumericLast
    THEN UnicodeToRegular(code)
    ELSE code

\* toRegular
ToRegular(text) == [k \in 1..Len(text) |-> ToRegularChar(text[k])]

\* The functions the module exports for formatting.
FormatFunctions == {"toBold", "toItalic", "toBoldItalic", "toRegular"}

\* The result of the function of this name.
Formatted(fn, text) ==
    CASE fn = "toBold" -> ToBold(text)
      [] fn = "toItalic" -> ToItalic(text)
      [] fn = "toBoldItalic" -> ToBoldItalic(text)
      [] fn = "toRegular" -> ToRegular(text)

\* A formatting function is applied to the text.
ApplyFormat(fn) ==
    /\ Len(fmtApplied) < MaxApplied
    /\ fmtText' = Formatted(fn, fmtText)
    /\ fmtApplied' = Append(fmtApplied, fn)
    /\ UNCHANGED <<fmtOriginal, managerVars, storageVars, discoveryVars,
                   penVars, popupVars>>

\* A string is about to be formatted.
InitFormat ==
    /\ ManagerIdle
    /\ StorageIdle
    /\ DiscoveryIdle
    /\ PenIdle
    /\ PopupIdle
    /\ fmtOriginal \in Texts
    /\ fmtText = fmtOriginal
    /\ fmtApplied = <<>>

NextFormat == \E fn \in FormatFunctions : ApplyFormat(fn)

\* The formatting functions applied one after the other to a string.
SpecFormat == InitFormat /\ [][NextFormat]_vars

\* The characters of the claim that are not alphanumeric.
IsAlphanumeric(char) ==
    \/ IndexOfIn(UpperA, 26, char) # -1
    \/ IndexOfIn(LowerA, 26, char) # -1
    \/ IndexOfIn(Digit0, 10, char) # -1

\* C30: toRegular removes all formatting: toRegular(toBold(s)) = s,
\* toRegular(toItalic(s)) = s and toRegular(toBoldItalic(s)) = s for every
\* string s, and each of the four functions leaves the characters that are
\* not alphanumeric as they are.
C30_ToRegularInvertsFormatting ==
    /\ (/\ Len(fmtApplied) = 2
        /\ fmtApplied[1] \in {"toBold", "toItalic", "toBoldItalic"}
        /\ fmtApplied[2] = "toRegular") => fmtText = fmtOriginal
    /\ Len(fmtApplied) = 1 =>
           /\ Len(fmtText) = Len(fmtOriginal)
           /\ \A k \in 1..Len(fmtOriginal) :
                  ~IsAlphanumeric(fmtOriginal[k]) =>
                      fmtText[k] = fmtOriginal[k]

====
